---- MODULE Spec2Model ----
(* Capability verification of sciunit (sciunit/capabilities.py):           *)
(* Capability.source_check, Capability.check and Capability.unimplemented.  *)
(* One call is modelled per behaviour: Init draws the call and its inputs,  *)
(* an action runs the called method to its return or to the exception it    *)
(* lets escape.                                                             *)
EXTENDS Integers, Sequences, FiniteSets, TLC

(* ------------------------------------------------------------------------ *)
(* Bounds                                                                   *)
(* ------------------------------------------------------------------------ *)

\* largest number of methods a capability class defines in its own body
MaxMethods == 2

(* ------------------------------------------------------------------------ *)
(* Source text, as inspect hands it out: a sequence of lines.               *)
(* ------------------------------------------------------------------------ *)

\* inspect.getsourcelines / inspect.getsource raise OSError: no text
NoSource == << >>

\* the body of every method the two example capabilities declare
SrcHelper == << "    def run(self):",
                "        \"\"\"Run, i.e. simulate the model.\"\"\"",
                "        self.unimplemented()" >>

\* a stub that raises the capability error itself
SrcRaiseCap == << "    def run(self):",
                  "        raise CapabilityNotImplementedError(self, None, '')" >>

\* a stub that raises the builtin not-implemented error
SrcRaiseNI == << "    def run(self):",
                 "        raise NotImplementedError()" >>

\* a capability method with real default behaviour
SrcDefault == << "    def run(self):",
                 "        return 0" >>

\* what a model writes when it overrides a method
SrcOverride == << "    def run(self):",
                  "        return 5" >>

Min(a, b) == IF a < b THEN a ELSE b

\* line[:n]
Prefix(line, n) == SubSeq(line, 1, Min(n, Len(line)))

RECURSIVE LStrip(_)
LStrip(line) ==
    IF Len(line) > 0 /\ SubSeq(line, 1, 1) = " "
    THEN LStrip(SubSeq(line, 2, Len(line)))
    ELSE line

RECURSIVE RStrip(_)
RStrip(line) ==
    IF Len(line) > 0 /\ SubSeq(line, Len(line), Len(line)) = " "
    THEN RStrip(SubSeq(line, 1, Len(line) - 1))
    ELSE line

\* line.strip()
Strip(line) == RStrip(LStrip(line))

\* the test of one source line, lines 45-50
IsStubLine(line) ==
    LET l == Strip(line)
    IN  \/ Prefix(l, 35) = "raise CapabilityNotImplementedError"
        \/ Prefix(l, 13) = "unimplemented"
        \/ Prefix(l, 25) = "raise NotImplementedError"

\* notImplementedInCap after the scan of source_lines, lines 43-52
notImplementedInCap(source_lines) ==
    \E i \in 1..Len(source_lines) : IsStubLine(source_lines[i])

(* ------------------------------------------------------------------------ *)
(* Capability.source_check                                                  *)
(* ------------------------------------------------------------------------ *)

\* the function attributes getattr(cls, name) resolves, the ones of the
\* class body first
Attrs(cls) == cls.own \o cls.inherited

\* a broader enumeration: every function attribute the class resolves
required_methods_dir(cls) == 1..Len(Attrs(cls))

\* positions in Attrs(cls) of the required methods: the functions of
\* vars(cls), lines 36-38
required_methods(cls) == 1..Len(cls.own)

\* inspect.getsource(getattr(model, method)): its text, NoSource on OSError
ModelSource(capSrc, impl) ==
    CASE impl = "inherit"  -> capSrc
      [] impl = "override" -> SrcOverride
      [] impl = "opaque"   -> NoSource

\* the comparison inverted
examine_inverted(capSrc, modelSrc) ==
    IF capSrc = NoSource THEN "oserror"
    ELSE IF ~notImplementedInCap(capSrc) THEN "next"
    ELSE IF modelSrc = NoSource THEN "oserror"
    ELSE IF capSrc # modelSrc THEN "fail"
    ELSE "next"

\* one pass of the loop body for one method, lines 41-67:
\*   "next"    the loop goes on to the next method
\*   "fail"    source_capable = False, break
\*   "oserror" the except branch: warn, break
examine(capSrc, modelSrc) ==
    IF capSrc = NoSource THEN "oserror"
    ELSE IF ~notImplementedInCap(capSrc) THEN "next"
    ELSE IF modelSrc = NoSource THEN "oserror"
    ELSE IF capSrc = modelSrc THEN "fail"
    ELSE "next"

\* the except branch going on to the next method instead of leaving the loop
RECURSIVE source_loop_continue(_, _, _, _, _)
source_loop_continue(cls, impl, i, caveats, examined) ==
    IF i \notin required_methods(cls)
    THEN [source_capable |-> TRUE, caveats |-> caveats, examined |-> examined]
    ELSE LET a    == Attrs(cls)[i]
             step == examine(a.src, ModelSource(a.src, impl[i]))
         IN  CASE step = "next" ->
                    source_loop_continue(cls, impl, i + 1, caveats,
                                         examined \o <<i>>)
               [] step = "fail" ->
                    [source_capable |-> FALSE, caveats |-> caveats,
                     examined |-> examined \o <<i>>]
               [] step = "oserror" ->
                    source_loop_continue(cls, impl, i + 1, caveats + 1,
                                         examined \o <<i>>)

\* the loop of lines 40-67 from position i on, in the order of vars(cls):
\* the value returned, the caveat warnings emitted, the methods examined
RECURSIVE source_loop(_, _, _, _, _)
source_loop(cls, impl, i, caveats, examined) ==
    IF i \notin required_methods(cls)
    THEN [source_capable |-> TRUE, caveats |-> caveats, examined |-> examined]
    ELSE LET a    == Attrs(cls)[i]
             step == examine(a.src, ModelSource(a.src, impl[i]))
         IN  CASE step = "next" ->
                    source_loop(cls, impl, i + 1, caveats, examined \o <<i>>)
               [] step = "fail" ->
                    [source_capable |-> FALSE, caveats |-> caveats,
                     examined |-> examined \o <<i>>]
               [] step = "oserror" ->
                    [source_capable |-> TRUE, caveats |-> caveats + 1,
                     examined |-> examined \o <<i>>]

\* source_check(cls, model), lines 32-69
source_check(cls, impl) == source_loop(cls, impl, 1, 0, << >>)

(* ------------------------------------------------------------------------ *)
(* Python values of check: "True", "False", "None" and method names         *)
(* ------------------------------------------------------------------------ *)

PyBool(b) == IF b THEN "True" ELSE "False"

\* bool(v)
Truthy(v) == v \notin {"False", "None", ""}

\* a and b
PyAnd(a, b) == IF Truthy(a) THEN b ELSE a

\* what a finished call left behind: returned value or escaped exception,
\* the events in the order they happened, the methods source_check examined,
\* and the arguments of a CapabilityNotImplementedError
Returned(v, log, examined) ==
    [kind |-> "returned", value |-> v, exc |-> "None", log |-> log,
     examined |-> examined, err_model |-> "None", err_capability |-> "None",
     err_message |-> "None"]

Raised(e, log, examined) ==
    [kind |-> "raised", value |-> "None", exc |-> e, log |-> log,
     examined |-> examined, err_model |-> "None", err_capability |-> "None",
     err_message |-> "None"]

NoResult ==
    [kind |-> "none", value |-> "None", exc |-> "None", log |-> << >>,
     examined |-> << >>, err_model |-> "None", err_capability |-> "None",
     err_message |-> "None"]

\* n warnings of lines 63-66
Caveats(n) == [i \in 1..n |-> "caveat"]

(* ------------------------------------------------------------------------ *)
(* Capability.check                                                         *)
(* ------------------------------------------------------------------------ *)

\* dict.get(key, None) on a dict held as a set of <<key, value>> pairs
Get(dict, key) ==
    IF \E p \in dict : p[1] = key
    THEN (CHOOSE p \in dict : p[1] = key)[2]
    ELSE "None"

\* hasattr(model, name) for the names a mapping may register
HasAttr(name) == name \in {"extra_ok", "extra_fail"}

\* f() for a registered method of the model
CallExtra(name) == IF name = "extra_ok" THEN "True" ELSE "False"

\* f_name, lines 92-94
f_name(mapping) ==
    IF mapping.kind # "None" THEN Get(mapping.dict, "cls") ELSE "False"

\* the registered method consulted only when the caller requires it
extra_step_lazy(name, require_extra) ==
    IF ~require_extra THEN [value |-> "True", calls |-> 0]
    ELSE IF Truthy(name) THEN [value |-> CallExtra(name), calls |-> 1]
    ELSE [value |-> "False", calls |-> 0]

\* the last two branches exchanged
extra_step_flipped(name, require_extra) ==
    IF Truthy(name) THEN [value |-> CallExtra(name), calls |-> 1]
    ELSE IF ~require_extra THEN [value |-> "False", calls |-> 0]
    ELSE [value |-> "True", calls |-> 0]

\* instance_capable and the number of calls of f, lines 96-102
extra_step(name, require_extra) ==
    IF Truthy(name) THEN [value |-> CallExtra(name), calls |-> 1]
    ELSE IF ~require_extra THEN [value |-> "True", calls |-> 0]
    ELSE [value |-> "False", calls |-> 0]

\* the two tests in the other order
diagnostics_source_first(class_capable, source_capable) ==
    IF ~Truthy(source_capable) THEN <<"behavioral">>
    ELSE IF ~Truthy(class_capable) THEN <<"structural">>
    ELSE << >>

\* the warnings of lines 104-110
diagnostics(class_capable, source_capable) ==
    IF ~Truthy(class_capable) THEN <<"structural">>
    ELSE IF ~Truthy(source_capable) THEN <<"behavioral">>
    ELSE << >>

\* the source component left out
verdict_no_source(class_capable, instance_capable, source_capable) ==
    PyAnd(class_capable, instance_capable)

\* the returned expression, line 112
verdict(class_capable, instance_capable, source_capable) ==
    PyAnd(PyAnd(class_capable, instance_capable), source_capable)

\* check(cls, model, require_extra), lines 86-112
check(cls, model, req) ==
    LET class_capable  == PyBool(model.isinstance)
        sc             == source_check(cls, model.impl)
        source_capable == IF Truthy(class_capable)
                          THEN PyBool(sc.source_capable) ELSE "None"
        log1           == IF Truthy(class_capable)
                          THEN <<"source_check">> \o Caveats(sc.caveats)
                          ELSE << >>
        examined       == IF Truthy(class_capable) THEN sc.examined ELSE << >>
        mapping        == model.extra_capability_checks
        name           == f_name(mapping)
        extra          == extra_step(name, req)
        log2           == log1 \o [i \in 1..extra.calls |-> "extra_check"]
    IN  IF mapping.kind = "missing"
        THEN Raised("AttributeError", log1, examined)
        ELSE IF Truthy(name) /\ ~HasAttr(name)
        THEN Raised("AttributeError", log1, examined)
        ELSE Returned(verdict(class_capable, extra.value, source_capable),
                      log2 \o diagnostics(class_capable, source_capable),
                      examined)

(* ------------------------------------------------------------------------ *)
(* Capability.unimplemented                                                 *)
(* ------------------------------------------------------------------------ *)

\* the capability classes of the file and the methods their bodies define
Declares ==
    [produce_number         |-> "ProducesNumber",
     run                    |-> "Runnable",
     set_run_params         |-> "Runnable",
     set_default_run_params |-> "Runnable"]

\* self.__class__.mro() for a class whose bases are `bases`: the class, its
\* bases in order, Capability once every capability base is past, then the
\* roots they share
mro(bases) ==
    LET caps == {i \in 1..Len(bases) : bases[i] # "Model"}
        last == CHOOSE i \in caps : \A j \in caps : j <= i
    IN  <<"Self">> \o SubSeq(bases, 1, last) \o <<"Capability">>
        \o SubSeq(bases, last + 1, Len(bases)) \o <<"SciUnit", "object">>

\* issubclass(obj, Capability)
IsCapability(obj) ==
    obj \in {"Self", "ProducesNumber", "Runnable", "Capability"}

\* issubclass(obj, Model)
IsModel(obj, bases) ==
    \/ obj = "Model"
    \/ obj = "Self" /\ \E i \in 1..Len(bases) : bases[i] = "Model"

\* the list of line 124
capabilities(bases) ==
    SelectSeq(mro(bases), LAMBDA obj : IsCapability(obj) /\ ~IsModel(obj, bases))

\* unimplemented(self, message), lines 123-127
unimplemented(bases, msg) ==
    LET caps == capabilities(bases)
    IN  [kind |-> "raised", value |-> "None",
         exc |-> "CapabilityNotImplementedError", log |-> << >>,
         examined |-> << >>,
         err_model |-> IF IsModel("Self", bases) THEN "self" ELSE "None",
         err_capability |-> IF caps = << >> THEN "None" ELSE Head(caps),
         err_message |-> msg]

(* ------------------------------------------------------------------------ *)
(* Inputs                                                                   *)
(* ------------------------------------------------------------------------ *)

\* texts a capability method may have, NoSource when inspect cannot get it
CapSources == {SrcHelper, SrcRaiseCap, SrcRaiseNI, SrcDefault, NoSource}

Attribute == [src : CapSources]

\* how the model resolves a method name: the capability's own function, a
\* function of its own, or one of its own whose text inspect cannot get
Impls == {"inherit", "override", "opaque"}

\* the methods a capability gets from a parent capability
Inherited == {<< >>, <<[src |-> SrcRaiseNI]>>}

Classes ==
    {[own |-> o, inherited |-> h] :
        o \in UNION {[1..n -> Attribute] : n \in 0..MaxMethods},
        h \in Inherited}

\* model.extra_capability_checks: no such attribute, None, or a dict from
\* capabilities to method names
Names == {"", "extra_ok", "extra_fail", "undefined"}

Dicts == {{}, {<<"other", "extra_fail">>}} \cup {{<<"cls", n>>} : n \in Names}

Mappings ==
    {[kind |-> "missing", dict |-> {}], [kind |-> "None", dict |-> {}]}
    \cup {[kind |-> "dict", dict |-> d] : d \in Dicts}

\* an instance of cls resolves each method of cls in one of the three ways;
\* an object that is no instance brings functions of its own
ImplsOf(cls, inst) ==
    [1..Len(Attrs(cls)) -> IF inst THEN Impls ELSE {"override"}]

\* bases of the class of the object an unimplemented operation is invoked on
BaseLists ==
    {<<"ProducesNumber">>, <<"Runnable">>,
     <<"Model", "ProducesNumber">>, <<"ProducesNumber", "Model">>,
     <<"Model", "Runnable">>, <<"Runnable", "Model">>,
     <<"ProducesNumber", "Runnable">>, <<"Runnable", "ProducesNumber">>,
     <<"Model", "ProducesNumber", "Runnable">>,
     <<"Model", "Runnable", "ProducesNumber">>,
     <<"ProducesNumber", "Model", "Runnable">>,
     <<"Runnable", "Model", "ProducesNumber">>,
     <<"ProducesNumber", "Runnable", "Model">>,
     <<"Runnable", "ProducesNumber", "Model">>}

\* the operations an object with these bases inherits
Operations(bases) ==
    {op \in DOMAIN Declares : \E i \in 1..Len(bases) : bases[i] = Declares[op]}

(* ------------------------------------------------------------------------ *)
(* State machine: one call, from its arguments to its outcome               *)
(* ------------------------------------------------------------------------ *)

VARIABLES call, cls, model, require_extra, self, method, message, pc, result

vars == <<call, cls, model, require_extra, self, method, message, pc, result>>

NoClass == [own |-> << >>, inherited |-> << >>]

NoModel ==
    [isinstance |-> TRUE, impl |-> << >>,
     extra_capability_checks |-> [kind |-> "None", dict |-> {}]]

InitSourceCheck ==
    /\ call = "source_check"
    /\ cls \in Classes
    /\ \E i \in ImplsOf(cls, TRUE) :
          model = [isinstance |-> TRUE, impl |-> i,
                   extra_capability_checks |-> [kind |-> "None", dict |-> {}]]
    /\ require_extra = FALSE
    /\ self = << >> /\ method = "None" /\ message = ""

InitCheck ==
    /\ call = "check"
    /\ cls \in Classes
    /\ \E inst \in BOOLEAN, m \in Mappings :
          \E i \in ImplsOf(cls, inst) :
             model = [isinstance |-> inst, impl |-> i,
                      extra_capability_checks |-> m]
    /\ require_extra \in BOOLEAN
    /\ self = << >> /\ method = "None" /\ message = ""

InitUnimplemented ==
    /\ call = "unimplemented"
    /\ cls = NoClass /\ model = NoModel /\ require_extra = FALSE
    /\ self \in BaseLists
    /\ method \in Operations(self)
    /\ message \in {"", "not yet"}

Init ==
    /\ pc = "start"
    /\ result = NoResult
    /\ (InitSourceCheck \/ InitCheck \/ InitUnimplemented)

\* a direct call of the classmethod source_check
SourceCheck ==
    /\ pc = "start" /\ call = "source_check"
    /\ LET sc == source_check(cls, model.impl)
       IN  result' = Returned(PyBool(sc.source_capable), Caveats(sc.caveats),
                              sc.examined)
    /\ pc' = "done"
    /\ UNCHANGED <<call, cls, model, require_extra, self, method, message>>

\* a call of the classmethod check
Check ==
    /\ pc = "start" /\ call = "check"
    /\ result' = check(cls, model, require_extra)
    /\ pc' = "done"
    /\ UNCHANGED <<call, cls, model, require_extra, self, method, message>>

\* a never-overridden operation is invoked and its body calls unimplemented
\* (message ''), or unimplemented is called with a message of the caller's
Unimplemented ==
    /\ pc = "start" /\ call = "unimplemented"
    /\ result' = unimplemented(self, message)
    /\ pc' = "done"
    /\ UNCHANGED <<call, cls, model, require_extra, self, method, message>>

Next == SourceCheck \/ Check \/ Unimplemented

Spec == Init /\ [][Next]_vars

(* ------------------------------------------------------------------------ *)
(* Vocabulary of the properties                                             *)
(* ------------------------------------------------------------------------ *)

Done == pc = "done"

\* the name the model's mapping holds for the capability under check
EntryFor ==
    IF model.extra_capability_checks.kind = "dict"
    THEN Get(model.extra_capability_checks.dict, "cls")
    ELSE "None"

\* an extra check is registered for the capability: a non-empty name
HasEntry == EntryFor \notin {"None", ""}

\* the model keeps to the interface of a Model: it exposes the mapping, and
\* a name the mapping registers is the name of a method of the instance
IsModelObject ==
    /\ model.extra_capability_checks.kind # "missing"
    /\ HasEntry => HasAttr(EntryFor)

\* bodies that follow the unimplemented-stub convention: a call of the
\* shared helper or a direct raise of a not-implemented error
StubBodies == {SrcHelper, SrcRaiseCap, SrcRaiseNI}

\* the three components of the verdict
ClassConformant == model.isinstance

SourceConformant ==
    model.isinstance /\ source_check(cls, model.impl).source_capable

InstanceConformant ==
    IF HasEntry THEN CallExtra(EntryFor) = "True" ELSE ~require_extra

\* positions of the log that hold event e
At(e) == {i \in 1..Len(result.log) : result.log[i] = e}

\* source_check tried to get the text of required method i and could not
Unretrievable(i) ==
    \/ cls.own[i].src = NoSource
    \/ /\ notImplementedInCap(cls.own[i].src)
       /\ ModelSource(cls.own[i].src, model.impl[i]) = NoSource

(* ------------------------------------------------------------------------ *)
(* Properties                                                               *)
(* ------------------------------------------------------------------------ *)

\* C1: for a model that keeps to the Model interface, check returns exactly
\* class_conformant AND source_conformant AND instance_conformant, where the
\* source component counts as failing when the class component is false and
\* the instance component is the registered method's result when one is
\* registered and NOT require_extra otherwise.
C1_VerdictIsConjunction ==
    (Done /\ call = "check" /\ IsModelObject) =>
        /\ result.kind = "returned"
        /\ result.value =
             PyBool(ClassConformant /\ SourceConformant /\ InstanceConformant)

\* a conforming model with a passing registered check gets True
C1_Witness ==
    /\ Done /\ call = "check" /\ IsModelObject
    /\ model.isinstance /\ HasEntry /\ Len(cls.own) = 2
    /\ result.value = "True"

\* C2: whenever a conforming model resolves some stubbed method of the
\* capability to a body identical to the capability's own stub, source_check
\* returns false, and check returns false with the behavioral-mismatch
\* diagnostic, whatever the other required methods are.
C2_IdenticalStubFails ==
    (/\ Done /\ call \in {"source_check", "check"}
     /\ model.isinstance /\ IsModelObject
     /\ \E i \in 1..Len(cls.own) :
           /\ cls.own[i].src \in StubBodies
           /\ ModelSource(cls.own[i].src, model.impl[i]) = cls.own[i].src)
    => /\ result.kind = "returned"
       /\ result.value = "False"
       /\ call = "check" => At("behavioral") # {}

\* C3: for a model of the Model interface that is no instance of the
\* capability, check returns False whatever require_extra and the mapping
\* are, emits the structural-mismatch warning and not the behavioral one,
\* and never calls source_check.
C3_NonConformingIsFalse ==
    (Done /\ call = "check" /\ IsModelObject /\ ~model.isinstance) =>
        /\ result.kind = "returned"
        /\ result.value = "False"
        /\ At("structural") # {}
        /\ At("behavioral") = {}
        /\ At("source_check") = {} /\ At("caveat") = {}
        /\ result.examined = << >>

\* a non-instance whose registered check passes, not required by the caller
C3_Witness ==
    /\ Done /\ call = "check" /\ ~model.isinstance
    /\ EntryFor = "extra_ok" /\ ~require_extra
    /\ Len(cls.own) = 1
    /\ result.value = "False" /\ result.log = <<"extra_check", "structural">>

\* C4: check never raises, whatever the object it is given.
C4_NeverRaises ==
    (Done /\ call = "check") => result.kind = "returned"

\* C5: invoking a never-overridden stub raises CapabilityNotImplementedError
\* carrying the capability that declares the invoked operation, and the
\* object itself as the model when it is a Model instance, none otherwise.
C5_CarriesDeclaringCapability ==
    (Done /\ call = "unimplemented") =>
        /\ result.kind = "raised"
        /\ result.exc = "CapabilityNotImplementedError"
        /\ result.err_capability = Declares[method]
        /\ result.err_model =
             IF \E i \in 1..Len(self) : self[i] = "Model"
             THEN "self" ELSE "None"

\* C6: when the mapping has no entry for the capability (it is None, has no
\* such key, or holds an empty name), check with require_extra returns
\* False, and without it returns class_conformant AND source_conformant.
C6_NoEntry ==
    (/\ Done /\ call = "check"
     /\ model.extra_capability_checks.kind # "missing"
     /\ ~HasEntry)
    => /\ result.kind = "returned"
       /\ require_extra => result.value = "False"
       /\ ~require_extra =>
            result.value = PyBool(ClassConformant /\ SourceConformant)

\* class and source conformance hold, the extra check is required and absent
C6_Witness ==
    /\ Done /\ call = "check" /\ require_extra
    /\ model.extra_capability_checks.kind = "dict" /\ EntryFor = ""
    /\ ClassConformant /\ SourceConformant /\ Len(cls.own) = 2
    /\ result.value = "False"

\* C7: when source_check cannot get the text of a required method it
\* returns normally: it warns exactly once, examines no further method and
\* returns True; so a False result and the caveat never come together.
C7_UnavailableSource ==
    (Done /\ call = "source_check") =>
        LET n == Len(result.examined)
        IN  /\ result.kind = "returned"
            /\ result.examined = [i \in 1..n |-> i]
            /\ \A i \in 1..n :
                  Unretrievable(i) =>
                     /\ i = n
                     /\ result.log = <<"caveat">>
                     /\ result.value = "True"
            /\ result.log # << >> =>
                  /\ result.log = <<"caveat">>
                  /\ n > 0 /\ Unretrievable(n)
            /\ ~(result.value = "False" /\ At("caveat") # {})

\* the first method has no text, the second is an inherited stub that is
\* never looked at
C7_Witness ==
    /\ Done /\ call = "source_check"
    /\ Len(cls.own) = 2
    /\ cls.own[1].src = NoSource
    /\ cls.own[2].src = SrcRaiseNI /\ model.impl[2] = "inherit"
    /\ result.examined = <<1>> /\ result.log = <<"caveat">>
    /\ result.value = "True"

\* C8: when a conforming model overrides every stubbed method of the
\* capability, source_check returns True, whatever else the capability
\* declares and whether or not some text is unavailable.
C8_AllOverridden ==
    (/\ Done /\ call = "source_check" /\ model.isinstance
     /\ \A i \in 1..Len(cls.own) :
           cls.own[i].src \in StubBodies => model.impl[i] # "inherit")
    => /\ result.kind = "returned"
       /\ result.value = "True"

\* two recognised stubs, both overridden with text of the model's own
C8_Witness ==
    /\ Done /\ call = "source_check"
    /\ Len(cls.own) = 2
    /\ \A i \in 1..2 :
          cls.own[i].src = SrcRaiseNI /\ model.impl[i] = "override"
    /\ result.examined = <<1, 2>>
    /\ result.value = "True"

\* C9: when the mapping registers a method of the model for the capability,
\* check invokes it exactly once, after source_check (if that ran) and
\* before any structural or behavioral warning, whatever require_extra is
\* and even when class or source conformance has already failed.
C9_ExtraCheckOnce ==
    (Done /\ call = "check" /\ IsModelObject /\ HasEntry) =>
        /\ Cardinality(At("extra_check")) = 1
        /\ model.isinstance => At("source_check") # {}
        /\ \A i \in At("extra_check") :
              /\ \A j \in At("source_check") \cup At("caveat") : j < i
              /\ \A j \in At("structural") \cup At("behavioral") : i < j

\* source conformance has failed and the caller does not require the check
C9_Witness ==
    /\ Done /\ call = "check" /\ HasEntry /\ ~require_extra
    /\ result.log = <<"source_check", "extra_check", "behavioral">>
    /\ result.value = "False"

\* C10: source_check examines only methods defined in the capability's own
\* body; a capability that adds no method to the ones it inherits passes
\* even when the model overrides none of the inherited stubs.
C10_OwnMethodsOnly ==
    (Done /\ call = "source_check") =>
        /\ \A k \in 1..Len(result.examined) :
              result.examined[k] \in 1..Len(cls.own)
        /\ cls.own = << >> =>
              result.value = "True" /\ result.examined = << >>

\* nothing of its own, one inherited stub the model never overrode
C10_Witness ==
    /\ Done /\ call = "source_check"
    /\ cls.own = << >>
    /\ cls.inherited = <<[src |-> SrcRaiseNI]>>
    /\ model.impl = <<"inherit">>
    /\ result.value = "True"

====
